---- MODULE Spec2Model ----
(***************************************************************************)
(* Model of the chalkboard-notes backend: the upload_image request         *)
(* handler of backend/main.py with its per-room asyncio locks, the merge   *)
(* reconciler of backend/gemini_service.py and the lecture_notes store of  *)
(* backend/supabase_client.py.                                             *)
(*                                                                         *)
(* Request handlers are coroutines on one event loop: a handler runs       *)
(* without interruption from one await to the next, so every action below  *)
(* is the code between two consecutive awaits of upload_image.             *)
(*                                                                         *)
(* Three specifications share the state: Spec and FairSpec (uploads),      *)
(* HighlightSpec (the highlight endpoint with the highlights and comments  *)
(* tables) and CallSpec (single calls of fix_latex_json, _build_prompt,    *)
(* _should_merge and _merge_sections on bounded arguments).                *)
(***************************************************************************)
EXTENDS Integers, Sequences, FiniteSets, TLC

\* Number of upload requests in flight during one run of the process.
MaxRequests == 2

Requests == 1..MaxRequests

\* Room ids (rooms.id) of the active rooms.
Rooms == {"roomA", "roomB"}

\* Python's None.
None == "None"

(***************************************************************************)
(* Text.  A Python str is a sequence of one-character strings.             *)
(***************************************************************************)
IsSpace(c) == c \in {" ", "\n", "\t", "\r"}

RECURSIVE rstrip(_)
rstrip(s) ==
    IF s # <<>> /\ IsSpace(s[Len(s)]) THEN rstrip(SubSeq(s, 1, Len(s) - 1)) ELSE s

RECURSIVE lstrip(_)
lstrip(s) ==
    IF s # <<>> /\ IsSpace(s[1]) THEN lstrip(SubSeq(s, 2, Len(s))) ELSE s

endswith(s, suffix) ==
    /\ Len(s) >= Len(suffix)
    /\ SubSeq(s, Len(s) - Len(suffix) + 1, Len(s)) = suffix

startswith(s, prefix) ==
    /\ Len(s) >= Len(prefix)
    /\ SubSeq(s, 1, Len(prefix)) = prefix

\* s.rfind(ch, 0, end): the highest 0-based index below end holding ch, or -1.
rfind(s, ch, end) ==
    LET hits == {i \in 0..(end - 1) : s[i + 1] = ch}
    IN  IF hits = {} THEN -1 ELSE CHOOSE i \in hits : \A j \in hits : j <= i

(***************************************************************************)
(* Sections.  A section dict is a record; a key the dict does not carry    *)
(* is None, which is what dict.get returns for it.                         *)
(***************************************************************************)
Section(sid, type, content, caption) ==
    [section_id |-> sid, type |-> type, content |-> content, caption |-> caption,
     image_url |-> None, image_bytes |-> None, image_ext |-> None]

\* The em dash U+2014, one character of a str.
EmDash == "EMDASH"

terminal_punct == {".", "!", "?", ":", ";", EmDash}

\* A test that looks at the punctuation alone, whatever the types.
should_merge_any_type(prev, curr) ==
    LET prev_content == rstrip(prev.content)
    IN  /\ prev_content # <<>> /\ lstrip(curr.content) # <<>>
        /\ prev_content[Len(prev_content)] \notin terminal_punct

\* A test without the two display-math rules.
should_merge_ignoring_display_math(prev, curr) ==
    IF prev.type = "diagram" \/ curr.type = "diagram" THEN FALSE
    ELSE
      LET prev_content == rstrip(prev.content)
      IN  /\ prev_content # <<>> /\ lstrip(curr.content) # <<>>
          /\ prev_content[Len(prev_content)] \notin terminal_punct

should_merge(prev, curr) ==
    IF prev.type = "diagram" \/ curr.type = "diagram" THEN FALSE
    ELSE
      LET prev_content == rstrip(prev.content)
          curr_content == lstrip(curr.content)
      IN  IF prev_content = <<>> \/ curr_content = <<>> THEN FALSE
          ELSE IF endswith(prev_content, <<"$", "$">>) THEN FALSE
          ELSE IF startswith(lstrip(curr_content), <<"$", "$">>) THEN FALSE
          ELSE
            LET inner_start == rfind(prev_content, "$", Len(prev_content) - 1)
                check_prev ==
                    IF endswith(prev_content, <<"$">>)
                       /\ ~endswith(prev_content, <<"$", "$">>)
                    THEN IF inner_start > 0
                         THEN rstrip(SubSeq(prev_content, 1, inner_start))
                         ELSE rstrip(SubSeq(prev_content, 1, Len(prev_content) - 1))
                    ELSE prev_content
                ends_with_punct ==
                    check_prev # <<>> /\ check_prev[Len(check_prev)] \in terminal_punct
            IN  ~ends_with_punct

\* A priority table that ranks note above step.
type_priority_note_over_step(type) ==
    CASE type \in {"equation", "definition"} -> 3
      [] type = "note" -> 2
      [] type = "step" -> 1
      [] OTHER -> 0

\* The table type_priority, read with .get(type, 0).
type_priority(type) ==
    CASE type \in {"equation", "definition"} -> 3
      [] type = "step" -> 2
      [] type = "note" -> 1
      [] OTHER -> 0

\* A merge under which the merged block takes the id of the later section.
merged_into_keeping_right_id(prev, section) ==
    [prev EXCEPT
       !.section_id = section.section_id,
       !.content = rstrip(prev.content) \o <<" ">> \o lstrip(section.content)]

\* A merge that puts the incoming content in front of the accumulated one.
merged_into_prepending(prev, section) ==
    [prev EXCEPT
       !.content = lstrip(section.content) \o <<" ">> \o rstrip(prev.content),
       !.type = IF type_priority(section.type) > type_priority(prev.type)
                THEN section.type ELSE prev.type]

\* One merge of `section` into the accumulator `prev` (the body of the if).
merged_into(prev, section) ==
    LET joiner == IF ~endswith(rstrip(prev.content), <<"\n">>) THEN <<" ">> ELSE <<>>
    IN  [prev EXCEPT
           !.content = rstrip(prev.content) \o joiner \o lstrip(section.content),
           !.type = IF type_priority(section.type) > type_priority(prev.type)
                    THEN section.type ELSE prev.type]

\* A loop that tests each section against the list element before it
\* instead of the accumulator.
RECURSIVE merge_loop_against_original(_, _, _, _)
merge_loop_against_original(sections, i, merged, consumed_ids) ==
    IF i > Len(sections) THEN <<merged, consumed_ids>>
    ELSE
      LET section == sections[i]
      IN  IF merged = <<>>
          THEN merge_loop_against_original(sections, i + 1, <<section>>, consumed_ids)
          ELSE
            IF should_merge(sections[i - 1], section)
            THEN merge_loop_against_original(
                     sections, i + 1,
                     [merged EXCEPT ![Len(merged)] = merged_into(merged[Len(merged)], section)],
                     Append(consumed_ids, section.section_id))
            ELSE merge_loop_against_original(sections, i + 1, Append(merged, section),
                                             consumed_ids)

RECURSIVE merge_loop(_, _, _, _)
merge_loop(sections, i, merged, consumed_ids) ==
    IF i > Len(sections) THEN <<merged, consumed_ids>>
    ELSE
      LET section == sections[i]
      IN  IF merged = <<>>
          THEN merge_loop(sections, i + 1, <<section>>, consumed_ids)
          ELSE
            LET prev == merged[Len(merged)]
                sid == section.section_id
            IN  IF should_merge(prev, section)
                THEN merge_loop(sections, i + 1,
                                [merged EXCEPT ![Len(merged)] = merged_into(prev, section)],
                                IF sid # None /\ sid # ""
                                THEN Append(consumed_ids, sid) ELSE consumed_ids)
                ELSE merge_loop(sections, i + 1, Append(merged, section), consumed_ids)

\* A merge that reports only the last id it consumed.
merge_sections_last_consumed(sections) ==
    LET m == merge_loop(sections, 1, <<>>, <<>>)
    IN  IF sections = <<>> THEN <<sections, <<>>>>
        ELSE <<m[1], IF m[2] = <<>> THEN <<>> ELSE <<m[2][Len(m[2])]>>>>

\* Returns the pair (merged_sections, consumed_ids).
merge_sections(sections) ==
    IF sections = <<>> THEN <<sections, <<>>>> ELSE merge_loop(sections, 1, <<>>, <<>>)

(***************************************************************************)
(* The lecture_notes table.  The rows of one room are kept in the order of *)
(* their serial id, the order every query of the code asks for.            *)
(***************************************************************************)
\* Length of the content snippet of a summary entry.
PreviewLen == 150

Min(a, b) == IF a <= b THEN a ELSE b

HasRow(rows, sid) == \E i \in DOMAIN rows : rows[i].section_id = sid

RowOf(rows, sid) == rows[CHOOSE i \in DOMAIN rows : rows[i].section_id = sid]

\* The row upsert_notes builds from one section dict.
note_row(s) ==
    [section_id |-> s.section_id, type |-> s.type, content |-> s.content,
     caption |-> s.caption, image_url |-> s.image_url]

\* INSERT ... ON CONFLICT (room_id, section_id) DO UPDATE of one row.
upsert_row(rows, row) ==
    IF HasRow(rows, row.section_id)
    THEN [i \in DOMAIN rows |->
            IF rows[i].section_id = row.section_id THEN row ELSE rows[i]]
    ELSE Append(rows, row)

RECURSIVE upsert_notes(_, _)
upsert_notes(rows, sections) ==
    IF sections = <<>> THEN rows
    ELSE upsert_notes(upsert_row(rows, note_row(Head(sections))), Tail(sections))

get_existing_sections_summary(rows) ==
    [i \in DOMAIN rows |->
        [section_id |-> rows[i].section_id,
         type |-> rows[i].type,
         content_preview |->
             SubSeq(rows[i].content, 1, Min(PreviewLen, Len(rows[i].content)))]]

get_notes_for_room(rows) == rows

(***************************************************************************)
(* asyncio.Lock, as `async with lock` of upload_image uses it.  A waiter   *)
(* is the future of a suspended acquire; no request is ever cancelled.     *)
(***************************************************************************)
NewLock == [locked |-> FALSE, waiters |-> <<>>]

\* An acquire() that forgets to test the locked flag.
can_acquire_ignoring_holder(l) == l.waiters = <<>>

\* acquire() takes the lock without suspending.
can_acquire(l) == ~l.locked /\ l.waiters = <<>>

wake_up_first(l) ==
    IF l.waiters = <<>> THEN l ELSE [l EXCEPT !.waiters[1].done = TRUE]

\* A release() that forgets to wake the first waiter.
lock_release_no_wake(l) == [l EXCEPT !.locked = FALSE]

lock_release(l) == wake_up_first([l EXCEPT !.locked = FALSE])

\* The woken acquire() resumes: it leaves the queue and takes the lock.
lock_resume(l, r) ==
    [locked |-> TRUE,
     waiters |-> SelectSeq(l.waiters, LAMBDA w : w.req # r)]

IsWoken(l, r) == \E i \in DOMAIN l.waiters : l.waiters[i].req = r /\ l.waiters[i].done

\* A _get_room_lock without the membership test: a new lock on every call.
get_room_lock_fresh(table, objs, room_id) ==
    [table |-> [rm \in DOMAIN table \cup {room_id} |->
                  IF rm = room_id THEN Len(objs) + 1 ELSE table[rm]],
     objs |-> Append(objs, NewLock),
     lock |-> Len(objs) + 1]

\* A _get_room_lock that evicts an idle lock and creates the next one anew.
get_room_lock_evicting(table, objs, room_id) ==
    IF room_id \notin DOMAIN table \/ can_acquire(objs[table[room_id]])
    THEN get_room_lock_fresh(table, objs, room_id)
    ELSE [table |-> table, objs |-> objs, lock |-> table[room_id]]

\* A _get_room_lock with one lock for the whole process.
get_room_lock_global(table, objs, room_id) ==
    IF "all" \notin DOMAIN table
    THEN [table |-> table @@ ("all" :> Len(objs) + 1),
          objs |-> Append(objs, NewLock),
          lock |-> Len(objs) + 1]
    ELSE [table |-> table, objs |-> objs, lock |-> table["all"]]

\* _get_room_lock: the lock table, the lock objects and the lock handed out.
get_room_lock(table, objs, room_id) ==
    IF room_id \notin DOMAIN table
    THEN [table |-> table @@ (room_id :> Len(objs) + 1),
          objs |-> Append(objs, NewLock),
          lock |-> Len(objs) + 1]
    ELSE [table |-> table, objs |-> objs, lock |-> table[room_id]]

\* prev = _previous_captures.get(room["id"]) and the frame taken from it.
get_capture(captures, room_id) ==
    IF room_id \in DOMAIN captures THEN captures[room_id] ELSE None

\* One stored capture for the whole process: every room receives it.
store_capture_shared(captures, room_id, image) ==
    [rm \in DOMAIN captures \cup {room_id} \cup Rooms |-> image]

\* _previous_captures[room["id"]] = (current_b64, current_mime)
store_capture(captures, room_id, image) ==
    [rm \in DOMAIN captures \cup {room_id} |->
        IF rm = room_id THEN image ELSE captures[rm]]

(***************************************************************************)
(* The extraction call.  The reply of the extraction model is an input:    *)
(* a failed HTTP call, a timeout, text that json.loads rejects after the   *)
(* repair, or text that parses to a list of sections.                      *)
(***************************************************************************)
chars_a == <<"a">>
chars_a_dot == <<"a", ".">>
chars_b_dot == <<"b", ".">>
chars_d == <<"d">>

\* A block split mid-sentence; a complete block and a diagram.
OutSplit ==
    <<Section("block-1", "note", chars_a, None),
      Section("block-2", "equation", chars_b_dot, None)>>

OutDiagram ==
    <<Section("block-1", "note", chars_a_dot, None),
      Section("diag-1", "diagram", chars_d, "cap")>>

ModelOutputs == {OutSplit, OutDiagram}

DiagramIds == {"diag-1"}

FailedReplies == {[kind |-> "http_error"], [kind |-> "timeout"], [kind |-> "bad_json"]}

ParsedReplies == {[kind |-> "json", sections |-> out] : out \in ModelOutputs}

\* A Python list object, as opposed to a dict.
PyList(items) == [py |-> "list", items |-> items]

IsList(x) == "py" \in DOMAIN x

\* generate_diagram_image for every diagram section; gen_ok holds the ids
\* whose image-generation call returns image bytes.
with_diagrams(sections, gen_ok) ==
    [i \in DOMAIN sections |->
        IF sections[i].type = "diagram" /\ sections[i].section_id \in gen_ok
        THEN [sections[i] EXCEPT !.image_bytes = "bytes", !.image_ext = "png"]
        ELSE sections[i]]

\* The ids an image-generation call is issued for.
generation_calls(sections) ==
    {sections[i].section_id : i \in {j \in DOMAIN sections : sections[j].type = "diagram"}}

\* The ids of the sections that carry generated image bytes.
generated_images(sections) ==
    {sections[i].section_id : i \in {j \in DOMAIN sections : sections[j].image_bytes # None}}

\* Raises on a failed reply; otherwise returns the tuple (sections, consumed_ids).
send_image_to_gemini(reply, gen_ok) ==
    IF reply.kind # "json"
    THEN [raised |-> TRUE, ret |-> <<>>, gen_calls |-> {}]
    ELSE LET m == merge_sections(reply.sections)
         IN  [raised |-> FALSE,
              ret |-> <<PyList(with_diagrams(m[1], gen_ok)), PyList(m[2])>>,
              gen_calls |-> generation_calls(m[1])]

(***************************************************************************)
(* upload_image after the extraction call returned.                        *)
(***************************************************************************)
\* The dict comprehension over the summary entries that carry an image_url.
existing_images(existing_sections) ==
    LET with_url == {i \in DOMAIN existing_sections :
                        /\ "image_url" \in DOMAIN existing_sections[i]
                        /\ existing_sections[i].image_url # None}
    IN  [sid \in {existing_sections[i].section_id : i \in with_url} |->
            existing_sections[CHOOSE i \in with_url :
                                existing_sections[i].section_id = sid].image_url]

NewUrl == "url-new"

\* `for section in sections`, with sections the value send_image_to_gemini
\* returned.  list.pop(key, default) raises TypeError.
RECURSIVE upload_loop(_, _, _, _)
upload_loop(sections, i, images, up_ok) ==
    IF i > Len(sections) THEN [raised |-> FALSE, sections |-> sections]
    ELSE IF IsList(sections[i]) THEN [raised |-> TRUE, sections |-> sections]
    ELSE
      LET section == sections[i]
          sid == section.section_id
          popped == [section EXCEPT !.image_bytes = None, !.image_ext = None]
          fallback == IF sid \in DOMAIN images
                      THEN [popped EXCEPT !.image_url = images[sid]] ELSE popped
          updated == IF section.image_bytes # None /\ section.image_ext # None
                     THEN IF sid \in up_ok
                          THEN [popped EXCEPT !.image_url = NewUrl] ELSE fallback
                     ELSE fallback
      IN  upload_loop([sections EXCEPT ![i] = updated], i + 1, images, up_ok)

\* Lines 159-198: the outcome of the request and the rows of the room.
finish_upload(rows, ret, existing_sections, up_ok) ==
    LET looped == upload_loop(ret, 1, existing_images(existing_sections), up_ok)
    IN  IF looped.raised
        THEN [status |-> 500, rows |-> rows, sections |-> <<>>, notes |-> <<>>,
              events |-> <<>>]
        ELSE LET written == upsert_notes(rows, looped.sections)
             IN  [status |-> 200, rows |-> written, sections |-> looped.sections,
                  notes |-> get_notes_for_room(written),
                  events |-> <<"upsert", "readback">>]

\* An except branch that falls back to an empty section list as the room's
\* notes instead of raising.
extraction_failed_silent(rows) ==
    [status |-> 200, rows |-> <<>>, sections |-> <<>>, notes |-> <<>>, events |-> <<>>]

\* The except branch of the extraction call: HTTPException(502), no write.
extraction_failed(rows) ==
    [status |-> 502, rows |-> rows, sections |-> <<>>, notes |-> <<>>, events |-> <<>>]

(***************************************************************************)
(* State.                                                                  *)
(***************************************************************************)
VARIABLES
    pc,                 \* where each request's coroutine is suspended
    room,               \* room["id"] of the request, once looked up
    lock_of,            \* the lock object _get_room_lock handed to the request
    existing,           \* the request's existing_sections
    prev_frame,         \* the request's prev (the previous capture it sends)
    result,             \* what send_image_to_gemini returned to the request, the
                        \* image-generation calls it made, and the generated images
                        \* whose upload to storage fails
    response,           \* the response of the request
    room_locks,         \* _room_locks: room id -> lock object
    lock_objs,          \* the asyncio.Lock objects created so far
    previous_captures,  \* _previous_captures: room id -> image
    store,              \* lecture_notes: room id -> rows in id order
    trace,              \* history: the events of each request, in order
    at_read,            \* history: what held when the request read its summary
    highlights,         \* highlights: (room id, section id) -> highlight_count
    comments,           \* comments: room id -> rows in created_at order
    hl_calls,           \* history: completed increment_highlight calls per key
    hl_last,            \* history: the highlight request served last
    fn_call,            \* the function call under study and its arguments
    fn_ret              \* what that call returned

\* The state of the upload handler, of the highlight handler, and of a
\* single call of one of the pure functions.
uploadVars == <<pc, room, lock_of, existing, prev_frame, result, response, room_locks,
                lock_objs, previous_captures, store, trace, at_read>>
highlightVars == <<highlights, comments, hl_calls, hl_last>>
callVars == <<fn_call, fn_ret>>

vars == <<uploadVars, highlightVars, callVars>>

\* The image a request uploads.
ImageOf(r) == ToString(r)

\* Rows the lecture_notes table may hold for a room when the process starts:
\* the table outlives the process.
SeededRows ==
    <<[section_id |-> "block-1", type |-> "note", content |-> chars_a_dot,
       caption |-> None, image_url |-> None],
      [section_id |-> "block-2", type |-> "note", content |-> chars_b_dot,
       caption |-> None, image_url |-> None],
      [section_id |-> "diag-1", type |-> "diagram", content |-> chars_d,
       caption |-> "cap", image_url |-> "url-old"]>>

NoResult == [parsed |-> FALSE, ret |-> <<>>, gen_calls |-> {}, upload_fails |-> {}]

NoResponse == [status |-> 0, sections |-> <<>>, notes |-> <<>>]

EmptyDict == [k \in {} |-> None]

NoCall == [fn |-> None]

NoHighlight ==
    [n |-> 0, room |-> None,
     body |-> [section_id |-> None, comment |-> None, highlighted_text |-> None],
     status |-> 0, count |-> 0, comments_before |-> <<>>]

NoReturn == [done |-> FALSE]

\* No highlight request has been served and no function call is under study.
HighlightInit ==
    /\ highlights = EmptyDict
    /\ comments = [rm \in Rooms |-> <<>>]
    /\ hl_calls = EmptyDict
    /\ hl_last = NoHighlight

CallIdle == fn_call = NoCall /\ fn_ret = NoReturn

\* upload_image when the process has started and no request has arrived.
UploadInit ==
    /\ pc = [r \in Requests |-> "idle"]
    /\ room = [r \in Requests |-> None]
    /\ lock_of = [r \in Requests |-> 0]
    /\ existing = [r \in Requests |-> <<>>]
    /\ prev_frame = [r \in Requests |-> None]
    /\ result = [r \in Requests |-> NoResult]
    /\ response = [r \in Requests |-> NoResponse]
    /\ room_locks = EmptyDict
    /\ lock_objs = <<>>
    /\ previous_captures = EmptyDict
    /\ store \in [Rooms -> {<<>>, SeededRows}]
    /\ trace = [r \in Requests |-> <<>>]
    /\ at_read = [r \in Requests |-> [in_region |-> {}, finished |-> {}, rows |-> <<>>]]

Init == UploadInit /\ HighlightInit /\ CallIdle

\* No upload arrives and the rooms hold no notes.
UploadQuiet == UploadInit /\ store = [rm \in Rooms |-> <<>>]

(***************************************************************************)
(* upload_image, one action per stretch of code between two awaits.        *)
(***************************************************************************)
\* Requests of the same room that hold the room's lock and are suspended in
\* the extraction call.
InRegion(rm) == {q \in Requests : room[q] = rm /\ pc[q] = "extracting"}

\* get_room_by_code finds no active room: 404.
RoomNotFound(r) ==
    /\ pc[r] = "idle"
    /\ pc' = [pc EXCEPT ![r] = "done"]
    /\ response' = [response EXCEPT ![r] = [NoResponse EXCEPT !.status = 404]]
    /\ UNCHANGED <<room, lock_of, existing, prev_frame, result, room_locks, lock_objs,
                   previous_captures, store, trace, at_read>>
    /\ UNCHANGED <<highlightVars, callVars>>

\* Lines 110-115: the room is found; the handler awaits file.read().
StartUpload(r, rm) ==
    /\ pc[r] = "idle"
    /\ pc' = [pc EXCEPT ![r] = "reading"]
    /\ room' = [room EXCEPT ![r] = rm]
    /\ UNCHANGED <<lock_of, existing, prev_frame, result, response, room_locks,
                   lock_objs, previous_captures, store, trace, at_read>>
    /\ UNCHANGED <<highlightVars, callVars>>

\* Lines 133-141: inside the lock, up to the await of the extraction call.
BeginRegion(r) ==
    /\ pc' = [pc EXCEPT ![r] = "extracting"]
    /\ existing' = [existing EXCEPT ![r] = get_existing_sections_summary(store[room[r]])]
    /\ prev_frame' = [prev_frame EXCEPT ![r] = get_capture(previous_captures, room[r])]
    /\ trace' = [trace EXCEPT ![r] = @ \o <<"acquire", "summary">>]
    /\ at_read' = [at_read EXCEPT ![r] =
                     [in_region |-> InRegion(room[r]) \ {r},
                      finished |-> {q \in Requests \ {r} :
                                      room[q] = room[r] /\ pc[q] = "done"
                                      /\ trace[q] # <<>>},
                      rows |-> store[room[r]]]]

\* Lines 116-132: _get_room_lock and `async with lock`: the lock is taken at
\* once, or the request queues behind the holder and suspends.
EnterLock(r) ==
    /\ pc[r] = "reading"
    /\ LET got == get_room_lock(room_locks, lock_objs, room[r])
           l == got.objs[got.lock]
       IN  /\ room_locks' = got.table
           /\ lock_of' = [lock_of EXCEPT ![r] = got.lock]
           /\ IF can_acquire(l)
              THEN /\ lock_objs' = [got.objs EXCEPT ![got.lock].locked = TRUE]
                   /\ BeginRegion(r)
              ELSE /\ lock_objs' = [got.objs EXCEPT ![got.lock].waiters =
                                      Append(@, [req |-> r, done |-> FALSE])]
                   /\ pc' = [pc EXCEPT ![r] = "waiting"]
                   /\ UNCHANGED <<existing, prev_frame, trace, at_read>>
    /\ UNCHANGED <<room, result, response, previous_captures, store>>
    /\ UNCHANGED <<highlightVars, callVars>>

\* The event loop resumes a waiter whose future the release completed.
Resume(r) ==
    /\ pc[r] = "waiting"
    /\ IsWoken(lock_objs[lock_of[r]], r)
    /\ lock_objs' = [lock_objs EXCEPT ![lock_of[r]] = lock_resume(@, r)]
    /\ BeginRegion(r)
    /\ UNCHANGED <<room, lock_of, result, response, room_locks, previous_captures, store>>
    /\ UNCHANGED <<highlightVars, callVars>>

\* The end of the request: the response, the rows of the room, and the
\* release of the lock on leaving `async with`.
Leave(r, outcome) ==
    /\ pc' = [pc EXCEPT ![r] = "done"]
    /\ store' = [store EXCEPT ![room[r]] = outcome.rows]
    /\ response' = [response EXCEPT ![r] =
                      [status |-> outcome.status, sections |-> outcome.sections,
                       notes |-> outcome.notes]]
    /\ lock_objs' = [lock_objs EXCEPT ![lock_of[r]] = lock_release(@)]
    /\ trace' = [trace EXCEPT ![r] = @ \o <<"extract">> \o outcome.events \o <<"release">>]

\* Lines 149-154: the extraction call raises.
ExtractionFails(r) ==
    /\ pc[r] = "extracting"
    /\ \E reply \in FailedReplies :
          /\ send_image_to_gemini(reply, {}).raised
          /\ Leave(r, extraction_failed(store[room[r]]))
    /\ UNCHANGED <<room, lock_of, existing, prev_frame, result, room_locks,
                   previous_captures, at_read>>
    /\ UNCHANGED <<highlightVars, callVars>>

\* Lines 156-198: the extraction call returns.
ExtractionSucceeds(r) ==
    /\ pc[r] = "extracting"
    /\ \E reply \in ParsedReplies, gen_ok \in SUBSET DiagramIds, up_ok \in SUBSET DiagramIds :
          LET call == send_image_to_gemini(reply, gen_ok)
          IN  /\ ~call.raised
              /\ result' = [result EXCEPT ![r] =
                              [parsed |-> TRUE, ret |-> call.ret,
                               gen_calls |-> call.gen_calls,
                               upload_fails |-> generated_images(call.ret[1].items) \ up_ok]]
              /\ previous_captures' =
                    store_capture(previous_captures, room[r], ImageOf(r))
              /\ Leave(r, finish_upload(store[room[r]], call.ret, existing[r], up_ok))
    /\ UNCHANGED <<room, lock_of, existing, prev_frame, room_locks, at_read>>
    /\ UNCHANGED <<highlightVars, callVars>>

Next ==
    \/ \E r \in Requests : RoomNotFound(r)
    \/ \E r \in Requests, rm \in Rooms : StartUpload(r, rm)
    \/ \E r \in Requests : EnterLock(r)
    \/ \E r \in Requests : Resume(r)
    \/ \E r \in Requests : ExtractionFails(r)
    \/ \E r \in Requests : ExtractionSucceeds(r)

Spec == Init /\ [][Next]_vars

\* External calls return or time out, and the event loop runs every
\* coroutine that is ready; whether further requests arrive is left open.
FairSpec ==
    /\ Spec
    /\ \A r \in Requests : WF_vars(Resume(r))
    /\ \A r \in Requests : WF_vars(ExtractionFails(r) \/ ExtractionSucceeds(r))

(***************************************************************************)
(* Highlights and comments: api_highlight of backend/main.py, the SQL      *)
(* function increment_highlight of backend/migrate.py and add_comment of   *)
(* backend/supabase_client.py.  api_highlight awaits nothing, so a request *)
(* is one step of the event loop; the SQL function is one statement.       *)
(***************************************************************************)
\* Number of highlight requests served during one run.
MaxHighlights == 3

\* Python truthiness of an optional str.
Truthy(x) == x # None /\ x # ""

\* The bodies a highlight request may post.
HighlightBodies ==
    [section_id : {None, "block-1", "block-2"},
     comment : {None, "", "why"},
     highlighted_text : {None, "excerpt"}]

\* ON CONFLICT (room_id, section_id) DO NOTHING: a conflicting call leaves
\* the stored count as it is.
increment_highlight_do_nothing(table, p_room_id, p_section_id) ==
    LET key == <<p_room_id, p_section_id>>
    IN  IF key \in DOMAIN table
        THEN [table |-> table, data |-> table[key]]
        ELSE [table |-> table @@ (key :> 1), data |-> 1]

\* The SQL function: INSERT ... VALUES (.., 1) ON CONFLICT (room_id,
\* section_id) DO UPDATE SET highlight_count = highlight_count + 1
\* RETURNING highlight_count.
increment_highlight_sql(table, p_room_id, p_section_id) ==
    LET key == <<p_room_id, p_section_id>>
        new_count == IF key \in DOMAIN table THEN table[key] + 1 ELSE 1
    IN  [table |-> [k \in DOMAIN table \cup {key} |->
                        IF k = key THEN new_count ELSE table[k]],
         data |-> new_count]

\* supabase_client.increment_highlight: the RPC and the value it hands back.
increment_highlight(table, room_id, section_id) ==
    LET rpc == increment_highlight_sql(table, room_id, section_id)
    IN  [table |-> rpc.table, count |-> IF rpc.data \in Int THEN rpc.data ELSE 1]

\* Positional parameters of add_comment: room_id, section_id, comment.
AddCommentParams == 3

\* A call of add_comment with the positional arguments args: Python raises
\* TypeError when their number is not the number of parameters; otherwise
\* one row is inserted into comments.
add_comment(table, args) ==
    IF Len(args) # AddCommentParams
    THEN [raised |-> TRUE, table |-> table]
    ELSE [raised |-> FALSE,
          table |-> [table EXCEPT ![args[1]] =
                        Append(@, [section_id |-> args[2], comment |-> args[3]])]]

\* api_highlight once the room is found: status, tables, and the count
\* increment_highlight returned (0 when it was not called).
api_highlight(hl, cm, room_id, body) ==
    IF ~Truthy(body.section_id)
    THEN [status |-> 400, highlights |-> hl, comments |-> cm, count |-> 0]
    ELSE
      LET inc == increment_highlight(hl, room_id, body.section_id)
      IN  IF Truthy(body.comment)
          THEN LET added == add_comment(cm, <<room_id, body.section_id, body.comment,
                                              body.highlighted_text>>)
               IN  IF added.raised
                   THEN [status |-> 500, highlights |-> inc.table, comments |-> cm,
                         count |-> inc.count]
                   ELSE [status |-> 200, highlights |-> inc.table,
                         comments |-> added.table, count |-> inc.count]
          ELSE [status |-> 200, highlights |-> inc.table, comments |-> cm,
                count |-> inc.count]

\* get_room_by_code finds no active room: 404.
HighlightRoomNotFound(body) ==
    /\ hl_last.n < MaxHighlights
    /\ hl_last' = [NoHighlight EXCEPT !.n = hl_last.n + 1, !.body = body, !.status = 404]
    /\ UNCHANGED <<highlights, comments, hl_calls>>
    /\ UNCHANGED <<uploadVars, callVars>>

\* A highlight request on an active room.
Highlight(rm, body) ==
    /\ hl_last.n < MaxHighlights
    /\ LET served == api_highlight(highlights, comments, rm, body)
           key == <<rm, body.section_id>>
       IN  /\ highlights' = served.highlights
           /\ comments' = served.comments
           /\ hl_calls' = IF served.count = 0 THEN hl_calls
                          ELSE [k \in DOMAIN hl_calls \cup {key} |->
                                   IF k = key
                                   THEN (IF k \in DOMAIN hl_calls THEN hl_calls[k] ELSE 0) + 1
                                   ELSE hl_calls[k]]
           /\ hl_last' = [n |-> hl_last.n + 1, room |-> rm, body |-> body,
                          status |-> served.status, count |-> served.count,
                          comments_before |-> comments[rm]]
    /\ UNCHANGED <<uploadVars, callVars>>

HighlightNext ==
    \/ \E body \in HighlightBodies : HighlightRoomNotFound(body)
    \/ \E rm \in Rooms, body \in HighlightBodies : Highlight(rm, body)

\* The highlight endpoint on its own: no upload is in flight.
HighlightSpecInit == UploadQuiet /\ HighlightInit /\ CallIdle

HighlightSpec == HighlightSpecInit /\ [][HighlightNext]_vars

(***************************************************************************)
(* fix_latex_json and _is_latex_command.  Positions are the 0-based        *)
(* indices of the code; text[i] of the code is text[i + 1] here.           *)
(***************************************************************************)
Backslash == "\\"

Quote == "\""

\* str.isalpha on the characters of the inputs below.
AsciiLetters ==
    {"a", "b", "c", "d", "e", "f", "g", "h", "i", "j", "k", "l", "m",
     "n", "o", "p", "q", "r", "s", "t", "u", "v", "w", "x", "y", "z",
     "A", "B", "C", "D", "E", "F", "G", "H", "I", "J", "K", "L", "M",
     "N", "O", "P", "Q", "R", "S", "T", "U", "V", "W", "X", "Y", "Z"}

isalpha(c) == c \in AsciiLetters

HexDigits ==
    {"0", "1", "2", "3", "4", "5", "6", "7", "8", "9", "a", "b", "c", "d", "e", "f",
     "A", "B", "C", "D", "E", "F"}

\* The slice text[a:b].
slice(text, a, b) == SubSeq(text, a + 1, Min(b, Len(text)))

\* _LATEX_CMDS_BY_FIRST.get(first): the command words filed under a letter.
LATEX_CMDS_BY_FIRST(first) ==
    CASE first = "b" ->
        {<<"b", "a", "r">>, <<"b", "e", "t", "a">>, <<"b", "f">>, <<"b", "i", "g">>,
         <<"b", "i", "g", "g">>, <<"b", "i", "n", "o", "m">>,
         <<"b", "o", "l", "d", "s", "y", "m", "b", "o", "l">>, <<"b", "o", "t">>,
         <<"b", "u", "l", "l", "e", "t">>, <<"b", "o", "x", "e", "d">>}
      [] first = "f" ->
        {<<"f", "r", "a", "c">>, <<"f", "o", "r", "a", "l", "l">>,
         <<"f", "l", "a", "t">>, <<"f", "l", "a", "l", "i", "g", "n">>}
      [] first = "n" ->
        {<<"n", "a", "b", "l", "a">>, <<"n", "e", "g">>, <<"n", "e", "q">>,
         <<"n", "e", "w", "c", "o", "m", "m", "a", "n", "d">>,
         <<"n", "e", "w", "l", "i", "n", "e">>, <<"n", "o", "t">>,
         <<"n", "o", "t", "i", "n">>, <<"n", "u">>,
         <<"n", "o", "l", "i", "m", "i", "t", "s">>}
      [] first = "r" ->
        {<<"r", "a", "n", "g", "l", "e">>, <<"r", "c", "e", "i", "l">>, <<"R", "e">>,
         <<"r", "f", "l", "o", "o", "r">>, <<"r", "h", "o">>,
         <<"r", "i", "g", "h", "t">>,
         <<"r", "i", "g", "h", "t", "a", "r", "r", "o", "w">>,
         <<"R", "i", "g", "h", "t", "a", "r", "r", "o", "w">>}
      [] first = "t" ->
        {<<"t", "a", "u">>, <<"t", "e", "x", "t">>, <<"t", "e", "x", "t", "b", "f">>,
         <<"t", "e", "x", "t", "i", "t">>, <<"t", "e", "x", "t", "r", "m">>,
         <<"t", "h", "e", "t", "a">>, <<"t", "i", "l", "d", "e">>,
         <<"t", "i", "m", "e", "s">>, <<"t", "o">>, <<"t", "o", "p">>,
         <<"t", "r", "i", "a", "n", "g", "l", "e">>}
      [] OTHER -> {}

\* A test without the lookahead: the letters after the backslash begin with
\* a command word, whatever follows the word.
is_latex_command_prefix(text, pos) ==
    /\ pos < Len(text)
    /\ \E cmd \in LATEX_CMDS_BY_FIRST(text[pos + 1]) :
          slice(text, pos, pos + Len(cmd)) = cmd

\* A test of the first letter alone: every escape whose letter opens some
\* command word counts as LaTeX.
is_latex_command_first_letter(text, pos) ==
    pos < Len(text) /\ LATEX_CMDS_BY_FIRST(text[pos + 1]) # {}

is_latex_command(text, pos) ==
    IF pos >= Len(text) THEN FALSE
    ELSE \E cmd \in LATEX_CMDS_BY_FIRST(text[pos + 1]) :
            LET end == pos + Len(cmd)
            IN  /\ slice(text, pos, end) = cmd
                /\ (end >= Len(text) \/ ~isalpha(text[end + 1]))

\* A repair that also doubles the backslashes it meets outside strings.
outside_emit_doubling(ch) == IF ch = Backslash THEN <<ch, ch>> ELSE <<ch>>

\* What the loop appends for a character met outside a string literal.
outside_emit(ch) == <<ch>>

\* A repair whose last branch keeps an unrecognized escape as it is.
escape_step_keep_unknown(text, i) ==
    IF i + 1 >= Len(text) THEN [emit |-> <<Backslash, Backslash>>, advance |-> 1]
    ELSE IF text[i + 2] \in {Backslash, Quote, "/"}
         THEN [emit |-> <<Backslash, text[i + 2]>>, advance |-> 2]
    ELSE IF text[i + 2] \in {"b", "f", "n", "r", "t"} /\ is_latex_command(text, i + 1)
         THEN [emit |-> <<Backslash, Backslash>>, advance |-> 1]
    ELSE [emit |-> <<Backslash>>, advance |-> 1]

\* A repair that does not skip the second backslash of an escaped backslash
\* and so reads it again as the start of an escape.
escape_step_rescanning(text, i) ==
    IF i + 1 >= Len(text) THEN [emit |-> <<Backslash, Backslash>>, advance |-> 1]
    ELSE
      LET next_ch == text[i + 2]
      IN  IF next_ch = Backslash THEN [emit |-> <<Backslash, Backslash>>, advance |-> 1]
          ELSE IF next_ch \in {Quote, "/"} THEN [emit |-> <<Backslash, next_ch>>, advance |-> 2]
          ELSE IF /\ next_ch = "u"
                  /\ i + 5 < Len(text)
                  /\ \A k \in (i + 2)..(i + 5) : text[k + 1] \in HexDigits
               THEN [emit |-> slice(text, i, i + 6), advance |-> 6]
          ELSE IF next_ch \in {"b", "f", "n", "r", "t"} /\ ~is_latex_command(text, i + 1)
               THEN [emit |-> <<Backslash>>, advance |-> 1]
          ELSE [emit |-> <<Backslash, Backslash>>, advance |-> 1]

\* The branch `if ch == '\\'` inside a string, at index i: what is appended
\* to the result and how far i advances.
escape_step(text, i) ==
    IF i + 1 >= Len(text) THEN [emit |-> <<Backslash, Backslash>>, advance |-> 1]
    ELSE
      LET next_ch == text[i + 2]
      IN  IF next_ch = Backslash THEN [emit |-> <<Backslash, Backslash>>, advance |-> 2]
          ELSE IF next_ch = Quote THEN [emit |-> <<Backslash, Quote>>, advance |-> 2]
          ELSE IF next_ch = "/" THEN [emit |-> <<Backslash, "/">>, advance |-> 2]
          ELSE IF /\ next_ch = "u"
                  /\ i + 5 < Len(text)
                  /\ \A k \in (i + 2)..(i + 5) : text[k + 1] \in HexDigits
               THEN [emit |-> slice(text, i, i + 6), advance |-> 6]
          ELSE IF next_ch \in {"b", "f", "n", "r", "t"}
               THEN IF is_latex_command(text, i + 1)
                    THEN [emit |-> <<Backslash, Backslash>>, advance |-> 1]
                    ELSE [emit |-> <<Backslash>>, advance |-> 1]
          ELSE [emit |-> <<Backslash, Backslash>>, advance |-> 1]

RECURSIVE fix_loop(_, _, _, _)
fix_loop(text, i, in_string, res) ==
    IF i >= Len(text) THEN res
    ELSE
      LET ch == text[i + 1]
      IN  IF ~in_string
          THEN fix_loop(text, i + 1, ch = Quote, res \o outside_emit(ch))
          ELSE IF ch = Backslash
               THEN LET step == escape_step(text, i)
                    IN  fix_loop(text, i + step.advance, TRUE, res \o step.emit)
          ELSE IF ch = Quote THEN fix_loop(text, i + 1, FALSE, Append(res, ch))
          ELSE fix_loop(text, i + 1, TRUE, Append(res, ch))

fix_latex_json(text) == fix_loop(text, 0, FALSE, <<>>)

(***************************************************************************)
(* _build_prompt: the numbering it tells the extraction model to continue  *)
(* from.  Section ids are strings of characters here, since the function   *)
(* parses them.                                                            *)
(***************************************************************************)
DigitChars == <<"0", "1", "2", "3", "4", "5", "6", "7", "8", "9">>

IsDigit(c) == \E k \in DOMAIN DigitChars : DigitChars[k] = c

DigitValue(c) == (CHOOSE k \in DOMAIN DigitChars : DigitChars[k] = c) - 1

\* The value of a string of digits and underscores, read left to right.
RECURSIVE digits_value(_, _)
digits_value(s, acc) ==
    IF s = <<>> THEN acc
    ELSE IF s[1] = "_" THEN digits_value(Tail(s), acc)
    ELSE digits_value(Tail(s), 10 * acc + DigitValue(s[1]))

\* int(s) of Python: surrounding whitespace, one optional sign, then digits
\* with single underscores between them; anything else raises ValueError.
py_int(s) ==
    LET t == rstrip(lstrip(s))
        signed == t # <<>> /\ t[1] \in {"+", "-"}
        body == IF signed THEN Tail(t) ELSE t
        wellformed ==
            /\ body # <<>>
            /\ \A k \in DOMAIN body : IsDigit(body[k]) \/ body[k] = "_"
            /\ IsDigit(body[1]) /\ IsDigit(body[Len(body)])
            /\ \A k \in 1..(Len(body) - 1) : ~(body[k] = "_" /\ body[k + 1] = "_")
    IN  IF ~wellformed THEN [raised |-> TRUE, value |-> 0]
        ELSE [raised |-> FALSE,
              value |-> IF signed /\ t[1] = "-"
                        THEN 0 - digits_value(body, 0) ELSE digits_value(body, 0)]

\* sid.split("-", 1)[1]: the text after the first hyphen.
after_first_hyphen(sid) ==
    LET first == CHOOSE k \in DOMAIN sid : sid[k] = "-" /\ \A j \in 1..(k - 1) : sid[j] # "-"
    IN  SubSeq(sid, first + 1, Len(sid))

Max(a, b) == IF a >= b THEN a ELSE b

block_prefix == <<"b", "l", "o", "c", "k", "-">>

diag_prefix == <<"d", "i", "a", "g", "-">>

\* A loop that remembers the suffix of the last id of a namespace instead
\* of the largest one.
RECURSIVE numbering_loop_last(_, _, _, _)
numbering_loop_last(existing_sections, i, max_block, max_diag) ==
    IF i > Len(existing_sections) THEN [max_block |-> max_block, max_diag |-> max_diag]
    ELSE
      LET sid == existing_sections[i].section_id
          n == py_int(after_first_hyphen(sid))
      IN  IF startswith(sid, block_prefix)
          THEN numbering_loop_last(existing_sections, i + 1,
                                   IF n.raised THEN max_block ELSE n.value, max_diag)
          ELSE IF startswith(sid, diag_prefix)
          THEN numbering_loop_last(existing_sections, i + 1, max_block,
                                   IF n.raised THEN max_diag ELSE n.value)
          ELSE numbering_loop_last(existing_sections, i + 1, max_block, max_diag)

\* The loop over existing_sections that finds max_block and max_diag.
RECURSIVE numbering_loop(_, _, _, _)
numbering_loop(existing_sections, i, max_block, max_diag) ==
    IF i > Len(existing_sections) THEN [max_block |-> max_block, max_diag |-> max_diag]
    ELSE
      LET sid == existing_sections[i].section_id
      IN  IF startswith(sid, block_prefix)
          THEN LET n == py_int(after_first_hyphen(sid))
               IN  numbering_loop(existing_sections, i + 1,
                                  IF n.raised THEN max_block ELSE Max(max_block, n.value),
                                  max_diag)
          ELSE IF startswith(sid, diag_prefix)
          THEN LET n == py_int(after_first_hyphen(sid))
               IN  numbering_loop(existing_sections, i + 1, max_block,
                                  IF n.raised THEN max_diag ELSE Max(max_diag, n.value))
          ELSE numbering_loop(existing_sections, i + 1, max_block, max_diag)

\* The prompt: the base prompt alone for an empty list, otherwise the base
\* prompt, the listed sections and `continue numbering from block-{..} /
\* diag-{..}`.
build_prompt(existing_sections) ==
    IF existing_sections = <<>>
    THEN [context |-> FALSE, listed |-> <<>>, next_block |-> 0, next_diag |-> 0]
    ELSE LET m == numbering_loop(existing_sections, 1, 0, 0)
         IN  [context |-> TRUE,
              listed |-> [i \in DOMAIN existing_sections |-> existing_sections[i].section_id],
              next_block |-> m.max_block + 1,
              next_diag |-> m.max_diag + 1]

(***************************************************************************)
(* Single calls of the pure functions of backend/gemini_service.py: the    *)
(* arguments are drawn from bounded sets, the call returns in one step.    *)
(***************************************************************************)
\* All strings over an alphabet up to a length.
StringsUpTo(alphabet, n) == UNION {[1..k -> alphabet] : k \in 0..n}

\* Length of the content of the left section of a _should_merge call.
MaxLeftLen == 3

ContentAlphabet == {"a", ".", EmDash, "$", " "}

LeftContents == StringsUpTo(ContentAlphabet, MaxLeftLen)

RightContents == {<<"b">>, <<" ", "b">>, <<"$", "$", "b">>, <<" ">>}

TypePairs == {<<"note", "note">>, <<"step", "equation">>,
              <<"diagram", "note">>, <<"note", "diagram">>}

ShouldMergeCalls ==
    {[fn |-> "should_merge",
      prev |-> Section("block-1", tp[1], left, None),
      curr |-> Section("block-2", tp[2], right, None)] :
        tp \in TypePairs, left \in LeftContents, right \in RightContents}

CallShouldMerge ==
    /\ fn_call.fn = "should_merge"
    /\ ~fn_ret.done
    /\ fn_ret' = [done |-> TRUE, value |-> should_merge(fn_call.prev, fn_call.curr)]
    /\ UNCHANGED <<fn_call, uploadVars, highlightVars>>

\* Number of pieces the text handed to fix_latex_json is made of.
MaxChunks == 5

\* The pieces: a quote, a backslash, a slash, letters that spell the
\* command `to`, the letter u and four hex digits.
FixChunks == {<<Quote>>, <<Backslash>>, <<"/">>, <<"t">>, <<"o">>, <<"u">>,
              <<"0", "0", "4", "1">>}

RECURSIVE Concat(_)
Concat(chunks) == IF chunks = <<>> THEN <<>> ELSE Head(chunks) \o Concat(Tail(chunks))

FixCalls ==
    {[fn |-> "fix_latex_json", text |-> Concat(chunks)] :
        chunks \in StringsUpTo(FixChunks, MaxChunks)}

CallFixLatexJson ==
    /\ fn_call.fn = "fix_latex_json"
    /\ ~fn_ret.done
    /\ fn_ret' = [done |-> TRUE, value |-> fix_latex_json(fn_call.text)]
    /\ UNCHANGED <<fn_call, uploadVars, highlightVars>>

\* Number of existing sections handed to _build_prompt.
MaxExisting == 2

\* Stored ids: block-1, block-12, diag-2, block-x, note-9, blocks-7,
\* block--3, diag-+4.
ExistingIds ==
    {block_prefix \o <<"1">>, block_prefix \o <<"1", "2">>, diag_prefix \o <<"2">>,
     block_prefix \o <<"x">>, <<"n", "o", "t", "e", "-", "9">>,
     <<"b", "l", "o", "c", "k", "s", "-", "7">>, block_prefix \o <<"-", "3">>,
     diag_prefix \o <<"+", "4">>}

SummaryEntry(sid) == [section_id |-> sid, type |-> "note", content_preview |-> <<"a">>]

BuildPromptCalls ==
    {[fn |-> "build_prompt",
      existing_sections |-> [i \in DOMAIN ids |-> SummaryEntry(ids[i])]] :
        ids \in StringsUpTo(ExistingIds, MaxExisting)}

CallBuildPrompt ==
    /\ fn_call.fn = "build_prompt"
    /\ ~fn_ret.done
    /\ fn_ret' = [done |-> TRUE, value |-> build_prompt(fn_call.existing_sections)]
    /\ UNCHANGED <<fn_call, uploadVars, highlightVars>>

\* Number of sections of the list handed to _merge_sections.
MaxSections == 3

\* Type and content of a section of the list: prose that trails off (as a
\* note, a step, a definition, and ending in a newline), a complete
\* sentence, an equation, a diagram, a block that is one inline-math span,
\* a display equation, and a block of blanks.
SectionKinds ==
    {<<"note", <<"a">>>>, <<"note", <<"a", ".">>>>, <<"equation", <<"b">>>>,
     <<"diagram", <<"d">>>>, <<"step", <<"a">>>>, <<"definition", <<"a">>>>,
     <<"note", <<"a", "\n">>>>, <<"note", <<"$", ".", "$">>>>,
     <<"equation", <<"$", "$", "b">>>>, <<"note", <<" ">>>>}

\* The i-th section of a reply carries an id of its own.
SidAt(i) == "sec-" \o ToString(i)

MergeCalls ==
    {[fn |-> "merge_sections",
      sections |-> [i \in DOMAIN kinds |->
                      Section(SidAt(i), kinds[i][1], kinds[i][2], None)]] :
        kinds \in StringsUpTo(SectionKinds, MaxSections)}

CallMergeSections ==
    /\ fn_call.fn = "merge_sections"
    /\ ~fn_ret.done
    /\ fn_ret' = [done |-> TRUE, value |-> merge_sections(fn_call.sections)]
    /\ UNCHANGED <<fn_call, uploadVars, highlightVars>>

CallInit ==
    /\ UploadQuiet
    /\ HighlightInit
    /\ \/ fn_call \in ShouldMergeCalls
       \/ fn_call \in FixCalls
       \/ fn_call \in BuildPromptCalls
       \/ fn_call \in MergeCalls
    /\ fn_ret = NoReturn

CallNext ==
    \/ CallShouldMerge
    \/ CallFixLatexJson
    \/ CallBuildPrompt
    \/ CallMergeSections

CallSpec == CallInit /\ [][CallNext]_vars

(***************************************************************************)
(* Properties.                                                             *)
(***************************************************************************)
SectionIds(sections) == {sections[i].section_id : i \in DOMAIN sections}

\* The post-merge section list and the consumed ids the extraction returned.
MergedOf(r) == result[r].ret[1].items
ConsumedOf(r) == result[r].ret[2].items

\* The section ids the request upserted into the store.
Written(r) == IF response[r].status = 200 THEN SectionIds(response[r].sections) ELSE {}

\* C1: for every room, at most one upload request is inside the locked
\* region (holding the room's lock) at any time.
C1_MutualExclusion == \A rm \in Rooms : Cardinality(InRegion(rm)) <= 1

\* A second request of the room queues while the first holds the lock.
C1_Witness ==
    \E r1, r2 \in Requests :
        /\ r1 # r2 /\ room[r1] = room[r2]
        /\ pc[r1] = "extracting" /\ pc[r2] = "waiting"

C3_EventOrder ==
    \A r \in Requests :
        pc[r] = "done" /\ result[r].parsed =>
            trace[r] = <<"acquire", "summary", "extract", "upsert", "readback", "release">>

\* C4: a request is made to wait for a lock only by a request of its own
\* room that holds the lock or queues for it; requests of other rooms never
\* keep it out of the locked region.
C4_RoomsIndependent ==
    [][\A r \in Requests :
          pc[r] = "reading" /\ pc'[r] = "waiting" =>
              \E q \in Requests \ {r} :
                  room[q] = room[r] /\ pc[q] \in {"extracting", "waiting"}]_vars

\* Two requests of different rooms are inside their locked regions at once.
C4_Witness ==
    \E r1, r2 \in Requests :
        /\ room[r1] # room[r2]
        /\ pc[r1] = "extracting" /\ pc[r2] = "extracting"

\* C5: every request of a room is handed the lock object the table holds
\* for the room, one lock object exists per table entry, and an entry of
\* the table is never replaced or removed.
C5_LockIdentity ==
    /\ [](/\ \A r \in Requests :
                lock_of[r] # 0 =>
                    room[r] \in DOMAIN room_locks /\ room_locks[room[r]] = lock_of[r]
          /\ Len(lock_objs) = Cardinality(DOMAIN room_locks))
    /\ [][\A rm \in DOMAIN room_locks :
             rm \in DOMAIN room_locks' /\ room_locks'[rm] = room_locks[rm]]_vars

\* Two requests of one room have both been handed a lock, the second one
\* after the first one released it.
C5_Witness ==
    \E r1, r2 \in Requests :
        /\ r1 # r2 /\ room[r1] = room[r2]
        /\ pc[r1] = "done" /\ lock_of[r1] # 0
        /\ lock_of[r2] # 0

\* C6: a request that holds a room lock eventually releases it, and a
\* request that waits for a room lock eventually acquires it.
C6_LockReleased ==
    \A r \in Requests :
        /\ (pc[r] = "extracting") ~> (pc[r] = "done")
        /\ (pc[r] = "waiting") ~> (pc[r] = "extracting")

\* A failed request has released the lock and woken the request that waits.
C6_Witness ==
    \E r1, r2 \in Requests :
        /\ pc[r1] = "done" /\ response[r1].status \in {500, 502}
        /\ pc[r2] = "waiting" /\ lock_of[r2] = lock_of[r1]
        /\ IsWoken(lock_objs[lock_of[r2]], r2)
        /\ ~lock_objs[lock_of[r2]].locked

\* C7: a request whose extraction returned a section list responds with
\* {sections, notes} and the store holds a row for every section of the
\* post-merge list.
C7_SectionsPersisted ==
    \A r \in Requests :
        pc[r] = "done" /\ result[r].parsed =>
            /\ response[r].status = 200
            /\ SectionIds(response[r].sections) = SectionIds(MergedOf(r))
            /\ \A sid \in SectionIds(MergedOf(r)) : HasRow(store[room[r]], sid)

\* C8: after a request whose merge folded sections into others, the store
\* holds no row for a consumed id and the surviving rows carry the merged
\* content.
C8_ConsumedRowDeleted ==
    \A r \in Requests :
        pc[r] = "done" /\ result[r].parsed /\ ConsumedOf(r) # <<>> =>
            /\ \A i \in DOMAIN ConsumedOf(r) : ~HasRow(store[room[r]], ConsumedOf(r)[i])
            /\ \A i \in DOMAIN MergedOf(r) :
                  /\ HasRow(store[room[r]], MergedOf(r)[i].section_id)
                  /\ RowOf(store[room[r]], MergedOf(r)[i].section_id).content
                       = MergedOf(r)[i].content

\* C9: the step in which a request's extraction call fails changes no row
\* of the store and ends the request with an error.
C9_FailureLeavesStore ==
    [][\A r \in Requests :
          pc[r] = "extracting" /\ pc'[r] = "done" /\ ~result'[r].parsed =>
              /\ store' = store
              /\ response'[r].status = 502
              /\ response'[r].sections = <<>>]_vars

\* A request on a room with stored notes ended with a failed extraction.
C9_Witness ==
    \E r \in Requests :
        /\ pc[r] = "done" /\ response[r].status = 502
        /\ store[room[r]] = SeededRows

\* C10: when image generation failed for a diagram section whose id has a
\* stored image_url, the request completes and the row keeps that image_url.
C10_ImageKept ==
    \A r \in Requests :
        pc[r] = "done" /\ result[r].parsed =>
            \A i \in DOMAIN MergedOf(r) :
                LET s == MergedOf(r)[i]
                    old == at_read[r].rows
                IN  /\ s.type = "diagram" /\ s.image_bytes = None
                    /\ HasRow(old, s.section_id)
                    /\ RowOf(old, s.section_id).image_url # None
                    => /\ response[r].status = 200
                       /\ RowOf(store[room[r]], s.section_id).image_url
                            = RowOf(old, s.section_id).image_url

\* C11: the stored highlight count of every (room, section) equals the
\* number of completed increment_highlight calls on it; the call that
\* finds no row returns 1, every other call returns the old count plus one,
\* and no stored count ever decreases.
C11_CountIsCalls ==
    /\ [](/\ DOMAIN highlights = DOMAIN hl_calls
          /\ \A k \in DOMAIN highlights : highlights[k] = hl_calls[k]
          /\ hl_last.count > 0 =>
                hl_last.count = hl_calls[<<hl_last.room, hl_last.body.section_id>>])
    /\ [][\A k \in DOMAIN highlights :
             k \in DOMAIN highlights' /\ highlights'[k] >= highlights[k]]_vars

\* One section highlighted three times, the last call returning 3.
C11_Witness ==
    \E k \in DOMAIN highlights :
        /\ highlights[k] = 3
        /\ hl_last.count = 3
        /\ k = <<hl_last.room, hl_last.body.section_id>>

\* C19: a highlight request with a non-empty comment is served with the
\* count of its (room, section) raised by one and exactly one comment row,
\* holding its comment, appended to the comments of the room.
C19_CommentAppended ==
    (hl_last.n > 0 /\ hl_last.status # 404
       /\ Truthy(hl_last.body.section_id) /\ Truthy(hl_last.body.comment)) =>
        /\ hl_last.status = 200
        /\ hl_last.count > 0
        /\ Len(comments[hl_last.room]) = Len(hl_last.comments_before) + 1
        /\ SubSeq(comments[hl_last.room], 1, Len(hl_last.comments_before))
              = hl_last.comments_before
        /\ comments[hl_last.room][Len(comments[hl_last.room])].comment
              = hl_last.body.comment

\* The left content without its trailing inline-math span: the text from
\* the nearest earlier $ up to the closing $ is dropped.
StripTrailingSpan(s) ==
    LET opens == {j \in 1..(Len(s) - 1) : s[j] = "$"}
    IN  IF s # <<>> /\ s[Len(s)] = "$" /\ opens # {}
        THEN SubSeq(s, 1, (CHOOSE j \in opens : \A k \in opens : k <= j) - 1)
        ELSE s

\* The last character of the prose of the left content, None when no
\* prose is left.
EffectiveLast(left) ==
    LET t == rstrip(StripTrailingSpan(rstrip(left)))
    IN  IF t = <<>> THEN None ELSE t[Len(t)]

\* The pairs C12 speaks of.
MergeCandidates(prev, curr) ==
    /\ prev.type # "diagram" /\ curr.type # "diagram"
    /\ rstrip(prev.content) # <<>> /\ lstrip(curr.content) # <<>>
    /\ ~endswith(rstrip(prev.content), <<"$", "$">>)
    /\ ~startswith(lstrip(curr.content), <<"$", "$">>)

\* C12: for two non-diagram sections with non-empty trimmed content, the
\* left not ending and the right not beginning with $$, _should_merge
\* returns true exactly when the effective last character of the left
\* content, taken after one trailing inline-math span is stripped, is not
\* a terminal punctuation mark.
C12_MergeIffNotTerminal ==
    (fn_call.fn = "should_merge" /\ fn_ret.done
       /\ MergeCandidates(fn_call.prev, fn_call.curr)) =>
        (fn_ret.value <=> EffectiveLast(fn_call.prev.content) \notin terminal_punct)

\* A JSON lexer's view of a text: the characters read while no string
\* literal is open, the opening quotes included.  Inside a literal a
\* backslash takes the next character with it.
RECURSIVE OutsideChars(_, _, _)
OutsideChars(s, i, in_literal) ==
    IF i > Len(s) THEN <<>>
    ELSE IF ~in_literal THEN <<s[i]>> \o OutsideChars(s, i + 1, s[i] = Quote)
    ELSE IF s[i] = Backslash THEN OutsideChars(s, i + 2, TRUE)
    ELSE OutsideChars(s, i + 1, s[i] # Quote)

\* The positions of the backslashes that open an escape inside a literal.
RECURSIVE EscapeStarts(_, _, _)
EscapeStarts(s, i, in_literal) ==
    IF i > Len(s) THEN {}
    ELSE IF ~in_literal THEN EscapeStarts(s, i + 1, s[i] = Quote)
    ELSE IF s[i] = Backslash THEN {i} \cup EscapeStarts(s, i + 2, TRUE)
    ELSE EscapeStarts(s, i + 1, s[i] # Quote)

\* Whether the text ends inside an open literal.
RECURSIVE EndsInLiteral(_, _, _)
EndsInLiteral(s, i, in_literal) ==
    IF i > Len(s) THEN in_literal
    ELSE IF ~in_literal THEN EndsInLiteral(s, i + 1, s[i] = Quote)
    ELSE IF s[i] = Backslash THEN EndsInLiteral(s, i + 2, TRUE)
    ELSE EndsInLiteral(s, i + 1, s[i] # Quote)

\* The backslash at position i opens one of the escapes JSON allows.
LegalEscapeAt(s, i) ==
    /\ i + 1 <= Len(s)
    /\ \/ s[i + 1] \in {Quote, Backslash, "/", "b", "f", "n", "r", "t"}
       \/ /\ s[i + 1] = "u"
          /\ i + 5 <= Len(s)
          /\ \A k \in (i + 2)..(i + 5) : s[k] \in HexDigits

Without(s, ch) == SelectSeq(s, LAMBDA c : c # ch)

FixReturned == fn_call.fn = "fix_latex_json" /\ fn_ret.done

\* C13: the characters fix_latex_json reads outside string literals reach
\* the output verbatim and in order, and the output differs from the input
\* only by backslashes added inside string literals.
C13_OutsideVerbatim ==
    FixReturned =>
        /\ OutsideChars(fn_ret.value, 1, FALSE) = OutsideChars(fn_call.text, 1, FALSE)
        /\ Without(fn_ret.value, Backslash) = Without(fn_call.text, Backslash)
        /\ Len(fn_ret.value) >= Len(fn_call.text)

\* A backslash outside every literal stays single while one inside the
\* literal that follows is doubled.
C13_Witness ==
    /\ FixReturned
    /\ fn_call.text = <<Backslash, Quote, Backslash, "o", Quote>>
    /\ fn_ret.value = <<Backslash, Quote, Backslash, Backslash, "o", Quote>>

\* The input is JSON as far as its string literals go: every literal is
\* closed, every backslash lies inside a literal and opens a legal escape.
ValidEscapesOnly(s) ==
    /\ ~EndsInLiteral(s, 1, FALSE)
    /\ Backslash \notin {OutsideChars(s, 1, FALSE)[k] :
                            k \in DOMAIN OutsideChars(s, 1, FALSE)}
    /\ \A i \in EscapeStarts(s, 1, FALSE) : LegalEscapeAt(s, i)

AllLatexCmds == UNION {LATEX_CMDS_BY_FIRST(c) : c \in {"b", "f", "n", "r", "t"}}

\* The escape at position i, read with the letters after it, spells a
\* whole command word of the table: \to", \nu , \bar.
SpellsCommand(s, i) ==
    \E cmd \in AllLatexCmds :
        /\ i + Len(cmd) <= Len(s)
        /\ SubSeq(s, i + 1, i + Len(cmd)) = cmd
        /\ (i + Len(cmd) = Len(s) \/ s[i + Len(cmd) + 1] \notin AsciiLetters)

\* C14 as stated: valid JSON whose strings use only legal escapes comes
\* back unchanged, whatever follows each escape.
C14_ValidUnchanged ==
    (FixReturned /\ ValidEscapesOnly(fn_call.text)) => fn_ret.value = fn_call.text

\* C14, amended: such an input comes back unchanged when none of its
\* escapes, read with the letters that follow it, spells a whole command
\* word of the table.
C14_ValidUnchangedUnlessCommand ==
    (FixReturned /\ ValidEscapesOnly(fn_call.text)
       /\ \A i \in EscapeStarts(fn_call.text, 1, FALSE) : ~SpellsCommand(fn_call.text, i))
        => fn_ret.value = fn_call.text

\* A tab escape followed by a letter that does not end a command word.
C14_Witness ==
    /\ FixReturned
    /\ fn_call.text = <<Quote, Backslash, "t", "t", Quote>>
    /\ fn_ret.value = fn_call.text

\* C15: in the output of fix_latex_json every backslash inside a string
\* literal opens a legal JSON escape.
C15_EscapesLegal ==
    FixReturned =>
        \A i \in EscapeStarts(fn_ret.value, 1, FALSE) : LegalEscapeAt(fn_ret.value, i)

\* An unrecognized escape and a trailing backslash, each doubled.
C15_Witness ==
    /\ FixReturned
    /\ fn_call.text = <<Quote, Backslash, "o", Backslash>>
    /\ fn_ret.value = <<Quote, Backslash, Backslash, "o", Backslash, Backslash>>

\* The numbers of a namespace: the suffixes of the ids that begin with the
\* prefix and whose suffix reads as a number that is not negative.
Counts(sid, prefix) ==
    /\ startswith(sid, prefix)
    /\ ~py_int(SubSeq(sid, Len(prefix) + 1, Len(sid))).raised
    /\ py_int(SubSeq(sid, Len(prefix) + 1, Len(sid))).value >= 0

Suffixes(existing_sections, prefix) ==
    {py_int(SubSeq(existing_sections[i].section_id, Len(prefix) + 1,
                   Len(existing_sections[i].section_id))).value :
        i \in {j \in DOMAIN existing_sections :
                    Counts(existing_sections[j].section_id, prefix)}}

Largest(S) == IF S = {} THEN 0 ELSE CHOOSE n \in S : \A m \in S : m <= n

\* The list without its i-th section.
Except(seq, i) == SubSeq(seq, 1, i - 1) \o SubSeq(seq, i + 1, Len(seq))

\* C16: for a non-empty list _build_prompt tells the model to continue from
\* block-(B+1) / diag-(D+1), B and D the largest numeric suffixes of the
\* block- and diag- ids (0 when there is none); an id outside the two
\* namespaces or without a numeric suffix can be dropped from the list
\* without changing the numbers; and the numbers exceed every existing
\* suffix.
C16_ContinueNumbering ==
    (fn_call.fn = "build_prompt" /\ fn_ret.done /\ fn_call.existing_sections # <<>>) =>
        LET ex == fn_call.existing_sections
        IN  /\ fn_ret.value.context
            /\ fn_ret.value.next_block = Largest(Suffixes(ex, block_prefix)) + 1
            /\ fn_ret.value.next_diag = Largest(Suffixes(ex, diag_prefix)) + 1
            /\ \A i \in DOMAIN ex :
                  (/\ ~Counts(ex[i].section_id, block_prefix)
                   /\ ~Counts(ex[i].section_id, diag_prefix)
                   /\ Len(ex) > 1) =>
                      /\ build_prompt(Except(ex, i)).next_block = fn_ret.value.next_block
                      /\ build_prompt(Except(ex, i)).next_diag = fn_ret.value.next_diag
            /\ \A n \in Suffixes(ex, block_prefix) : fn_ret.value.next_block >= n + 1
            /\ \A n \in Suffixes(ex, diag_prefix) : fn_ret.value.next_diag >= n + 1

\* block-12 listed before block-1: the numbering continues from block-13.
C16_Witness ==
    /\ fn_call.fn = "build_prompt" /\ fn_ret.done
    /\ Len(fn_call.existing_sections) = 2
    /\ fn_call.existing_sections[1].section_id = block_prefix \o <<"1", "2">>
    /\ fn_call.existing_sections[2].section_id = block_prefix \o <<"1">>
    /\ fn_ret.value.next_block = 13 /\ fn_ret.value.next_diag = 1

\* C17: no image-generation call is issued for a diagram section whose id
\* is in the room's store with a persisted image_url.
C17_NoRegeneration ==
    \A r \in Requests :
        result[r].parsed =>
            \A sid \in result[r].gen_calls :
                ~(/\ HasRow(at_read[r].rows, sid)
                  /\ RowOf(at_read[r].rows, sid).image_url # None)

\* C18: an upload during which the storage rejects a generated diagram
\* image still ends normally, with every section of the upload in the
\* store.
C18_UploadFailureTolerated ==
    \A r \in Requests :
        (pc[r] = "done" /\ result[r].parsed /\ result[r].upload_fails # {}) =>
            /\ response[r].status = 200
            /\ \A sid \in SectionIds(MergedOf(r)) : HasRow(store[room[r]], sid)

MergeReturned == fn_call.fn = "merge_sections" /\ fn_ret.done

Elements(seq) == {seq[k] : k \in DOMAIN seq}

\* C20: every diagram section of the input of _merge_sections is in the
\* output with its section_id, type and content unchanged, and its id is
\* not in the consumed-id list.
C20_DiagramsUntouched ==
    MergeReturned =>
        \A i \in DOMAIN fn_call.sections :
            fn_call.sections[i].type = "diagram" =>
                /\ \E j \in DOMAIN fn_ret.value[1] :
                      /\ fn_ret.value[1][j].section_id = fn_call.sections[i].section_id
                      /\ fn_ret.value[1][j].type = "diagram"
                      /\ fn_ret.value[1][j].content = fn_call.sections[i].content
                /\ fn_call.sections[i].section_id \notin Elements(fn_ret.value[2])

\* A diagram between prose that trails off and an equation: the prose is
\* not continued into the diagram, nor the diagram into the equation.
C20_Witness ==
    /\ MergeReturned
    /\ Len(fn_call.sections) = 3
    /\ fn_call.sections[1].type = "note" /\ fn_call.sections[1].content = <<"a">>
    /\ fn_call.sections[2].type = "diagram"
    /\ fn_call.sections[3].type = "equation"
    /\ Len(fn_ret.value[1]) = 3 /\ fn_ret.value[2] = <<>>

ShouldMergeReturned == fn_call.fn = "should_merge" /\ fn_ret.done

\* C21: _should_merge returns false whenever the right-trimmed left content
\* ends with $$ or the left-trimmed right content begins with $$, whatever
\* the punctuation and the types.
C21_DisplayMathNeverMerged ==
    (ShouldMergeReturned
       /\ \/ endswith(rstrip(fn_call.prev.content), <<"$", "$">>)
          \/ startswith(lstrip(fn_call.curr.content), <<"$", "$">>)) =>
        ~fn_ret.value

\* Prose that trails off into a display-math closer, before plain prose.
C21_Witness ==
    /\ ShouldMergeReturned
    /\ fn_call.prev.type = "note" /\ fn_call.curr.type = "note"
    /\ fn_call.prev.content = <<"a", "$", "$">>
    /\ fn_call.curr.content = <<"b">>
    /\ ~fn_ret.value

\* The ids of a section list, in order.
IdsOf(sections) == [i \in DOMAIN sections |-> sections[i].section_id]

\* The section of the list that carries the id.
PosOf(sections, sid) == CHOOSE i \in DOMAIN sections : sections[i].section_id = sid

\* The first section of the run the k-th input section belongs to: the
\* nearest section at or before k whose id is in the output.
RunStart(input, output, k) ==
    CHOOSE p \in 1..k :
        /\ input[p].section_id \in SectionIds(output)
        /\ \A q \in (p + 1)..k : input[q].section_id \notin SectionIds(output)

\* C22: a section merged into the one before it leaves its id in the
\* consumed list, in input order, and the section that survives a run of
\* merges is the first section of the run: it carries that section's id and
\* its content begins with that section's content.
C22_LeftIdSurvives ==
    MergeReturned =>
        LET input == fn_call.sections
            output == fn_ret.value[1]
            kept == SectionIds(output)
        IN  /\ kept \subseteq SectionIds(input)
            /\ fn_ret.value[2] = SelectSeq(IdsOf(input), LAMBDA sid : sid \notin kept)
            /\ \A k \in DOMAIN input :
                  input[k].section_id \notin kept =>
                      /\ input[1].section_id \in kept
                      /\ LET first == input[RunStart(input, output, k)]
                             survivor == output[PosOf(output, first.section_id)]
                         IN  startswith(survivor.content, rstrip(first.content))

\* A run of three sections folded into the first one.
C22_Witness ==
    /\ MergeReturned
    /\ Len(fn_call.sections) = 3
    /\ Len(fn_ret.value[1]) = 1
    /\ fn_ret.value[1][1].section_id = SidAt(1)
    /\ fn_ret.value[2] = <<SidAt(2), SidAt(3)>>

\* The k-th input section was merged into the section just before it, and
\* nothing else was merged into that one.
SingleMerge(input, output, k) ==
    /\ k > 1
    /\ input[k].section_id \notin SectionIds(output)
    /\ input[k - 1].section_id \in SectionIds(output)
    /\ (k = Len(input) \/ input[k + 1].section_id \in SectionIds(output))

\* C23: the content of a merged block is the left content, one space, the
\* right content; when the left content ends in a newline, the right
\* content follows it with no space inserted.
C23_JoinedBySpace ==
    MergeReturned =>
        LET input == fn_call.sections
            output == fn_ret.value[1]
        IN  \A k \in DOMAIN input :
                SingleMerge(input, output, k) =>
                    LET left == input[k - 1].content
                        right == input[k].content
                        joined == output[PosOf(output, input[k - 1].section_id)].content
                    IN  IF endswith(left, <<"\n">>)
                        THEN joined \in {left \o lstrip(right), rstrip(left) \o lstrip(right)}
                        ELSE joined = rstrip(left) \o <<" ">> \o lstrip(right)

\* The last section of the run that starts at input section p.
RunEnd(input, output, p) ==
    CHOOSE e \in p..Len(input) :
        /\ \A q \in (p + 1)..e : input[q].section_id \notin SectionIds(output)
        /\ (e = Len(input) \/ input[e + 1].section_id \in SectionIds(output))

\* The ranking of types the promotion follows.
Rank(type) ==
    CASE type = "equation" -> 3
      [] type = "definition" -> 3
      [] type = "step" -> 2
      [] type = "note" -> 1

RECURSIVE Accumulated(_, _, _)
Accumulated(input, p, e) ==
    IF e <= p THEN input[p]
    ELSE merged_into(Accumulated(input, p, e - 1), input[e])

\* C25: each incoming section is tested against the accumulator, the last
\* output section with everything already merged into it: it is consumed
\* exactly when _should_merge accepts it after that accumulator, and the
\* section a run leaves is the accumulator of the whole run.
C25_TestedAgainstAccumulator ==
    MergeReturned =>
        LET input == fn_call.sections
            output == fn_ret.value[1]
        IN  /\ \A k \in 2..Len(input) :
                  LET p == RunStart(input, output, k - 1)
                  IN  (input[k].section_id \notin SectionIds(output))
                          <=> should_merge(Accumulated(input, p, k - 1), input[k])
            /\ \A j \in DOMAIN output :
                  LET p == PosOf(input, output[j].section_id)
                  IN  output[j] = Accumulated(input, p, RunEnd(input, output, p))

\* Three sections A, B, C folded into one although C would not be merged
\* into B alone: A trails off and so does A+B.
C25_Witness ==
    /\ MergeReturned
    /\ Len(fn_call.sections) = 3
    /\ should_merge(fn_call.sections[1], fn_call.sections[2])
    /\ ~should_merge(fn_call.sections[2], fn_call.sections[3])
    /\ Len(fn_ret.value[1]) = 1
    /\ fn_ret.value[2] = <<SidAt(2), SidAt(3)>>
    /\ fn_ret.value[1][1].type = fn_call.sections[3].type

\* Where the backslash at input position i lands in the output: after the
\* repair of everything before it.
LandsAt(s, i) == Len(fix_latex_json(SubSeq(s, 1, i - 1))) + 1

\* C26: inside a string literal a backslash followed by one of b f n r t is
\* doubled exactly when the text from that letter spells a command word of
\* the table followed by a non-letter or the end of the text; otherwise
\* the single backslash is kept.
C26_DoubledIffCommand ==
    FixReturned =>
        LET input == fn_call.text
            output == fn_ret.value
        IN  \A i \in EscapeStarts(input, 1, FALSE) :
                (i < Len(input) /\ input[i + 1] \in {"b", "f", "n", "r", "t"}) =>
                    LET o == LandsAt(input, i)
                    IN  /\ o < Len(output)
                        /\ output[o] = Backslash
                        /\ IF SpellsCommand(input, i)
                           THEN /\ o + 2 <= Len(output)
                                /\ output[o + 1] = Backslash
                                /\ output[o + 2] = input[i + 1]
                           ELSE output[o + 1] = input[i + 1]

\* The command \to before a slash: its backslash is doubled.
C26_Witness ==
    /\ FixReturned
    /\ fn_call.text = <<Quote, Backslash, "t", "o", "/">>
    /\ fn_ret.value = <<Quote, Backslash, Backslash, "t", "o", "/">>

\* C27: fix_latex_json is idempotent: applied to its own output it returns
\* that output unchanged.
C27_Idempotent ==
    FixReturned => fix_latex_json(fn_ret.value) = fn_ret.value

\* A backslash doubled by the first pass is left alone by the second.
C27_Witness ==
    /\ FixReturned
    /\ fn_call.text = <<Quote, Backslash, "o">>
    /\ fn_ret.value = <<Quote, Backslash, Backslash, "o">>
    /\ fix_latex_json(fn_ret.value) = fn_ret.value

\* C28: when every input section carries a section_id, the ids of the
\* output, in order, are a subsequence of the input ids, the consumed ids
\* are exactly the other input ids, the two lists together are as long as
\* the input, and the first input section survives.
C28_IdsPartitioned ==
    (MergeReturned /\ \A k \in DOMAIN fn_call.sections :
                          fn_call.sections[k].section_id \notin {None, ""}) =>
        LET input == fn_call.sections
            output == fn_ret.value[1]
            consumed_ids == fn_ret.value[2]
        IN  /\ IdsOf(output) =
                  SelectSeq(IdsOf(input), LAMBDA sid : sid \in SectionIds(output))
            /\ Elements(consumed_ids) = SectionIds(input) \ SectionIds(output)
            /\ Len(output) + Len(consumed_ids) = Len(input)
            /\ input # <<>> => (output # <<>> /\ output[1].section_id = input[1].section_id)

\* The middle section of three is consumed; the first and the last survive.
C28_Witness ==
    /\ MergeReturned
    /\ Len(fn_call.sections) = 3
    /\ IdsOf(fn_ret.value[1]) = <<SidAt(1), SidAt(3)>>
    /\ fn_ret.value[2] = <<SidAt(2)>>

\* C29: _merge_sections reaches a fixed point in one pass: applied to its
\* own output list it merges nothing and returns the same sections with an
\* empty list of consumed ids.
C29_FixedPoint ==
    MergeReturned => merge_sections(fn_ret.value[1]) = <<fn_ret.value[1], <<>>>>

\* A block that opens with display math is kept apart from the block before
\* it, takes in the block after it, and is still kept apart by a second
\* pass.
C29_Witness ==
    /\ MergeReturned
    /\ Len(fn_call.sections) = 3
    /\ startswith(fn_call.sections[2].content, <<"$", "$">>)
    /\ IdsOf(fn_ret.value[1]) = <<SidAt(1), SidAt(2)>>
    /\ fn_ret.value[2] = <<SidAt(3)>>
    /\ should_merge(fn_call.sections[1], fn_call.sections[3])
    /\ merge_sections(fn_ret.value[1]) = <<fn_ret.value[1], <<>>>>

\* The requests of a room whose extraction call has returned a parsed reply
\* and which have left the locked region.
Succeeded(rm) ==
    {q \in Requests : room[q] = rm /\ pc[q] = "done" /\ result[q].parsed}

\* q is the most recent member of F: every other member had finished when q
\* entered the locked region.
MostRecent(q, F) == q \in F /\ \A o \in F \ {q} : o \in at_read[q].finished

\* The frame a request entering the region of room rm is to find, given
\* the set F of earlier successful uploads of the room.
IsLatestImage(frame, F) ==
    IF F = {} THEN frame = None
    ELSE \E q \in F : MostRecent(q, F) /\ frame = ImageOf(q)

\* The previous frame of every request that has entered the locked region
\* is the image of the most recent upload of its room that had succeeded by
\* then, and the stored capture of every room is the image of its most
\* recent successful upload.
PreviousFrameIsLatest ==
    /\ \A r \in Requests :
          trace[r] # <<>> =>
              IsLatestImage(prev_frame[r], {q \in at_read[r].finished : result[q].parsed})
    /\ \A rm \in Rooms :
          IF Succeeded(rm) = {} THEN rm \notin DOMAIN previous_captures
          ELSE IsLatestImage(previous_captures[rm], Succeeded(rm))

\* A step changes the stored capture of a room only when a request of that
\* room, holding the room's lock, has its extraction call return; a request
\* takes its previous frame only in the step that gives it the lock.
CaptureTouchedUnderLock ==
    /\ \A rm \in Rooms :
          get_capture(previous_captures', rm) # get_capture(previous_captures, rm) =>
              \E r \in Requests :
                  /\ room[r] = rm /\ pc[r] = "extracting"
                  /\ lock_objs[lock_of[r]].locked
                  /\ pc'[r] = "done" /\ result'[r].parsed
                  /\ previous_captures'[rm] = ImageOf(r)
    /\ \A r \in Requests :
          (pc[r] = "extracting" /\ pc'[r] = "done" /\ ~result'[r].parsed) =>
              previous_captures' = previous_captures
    /\ \A r \in Requests :
          /\ prev_frame'[r] # prev_frame[r] => pc[r] \in {"reading", "waiting"}
          /\ (pc[r] \in {"reading", "waiting"} /\ pc'[r] = "extracting") =>
                /\ lock_objs'[lock_of'[r]].locked
                /\ InRegion(room[r])' = {r}
                /\ prev_frame'[r] = get_capture(previous_captures, room[r])

\* C30: the previous frame sent with an upload for a room is the image of
\* the most recent earlier upload of the room whose extraction succeeded,
\* and none when there is no such upload; a failed extraction and an upload
\* for another room leave the room's stored capture as it is, and the
\* capture is read and replaced only while the room's lock is held.
C30_PreviousFrame == []PreviousFrameIsLatest /\ [][CaptureTouchedUnderLock]_vars

\* After a successful upload a second upload of the room is sent the first
\* one's image and fails; the stored capture is still the first image.
C30_Witness ==
    \E r1, r2 \in Requests :
        /\ r1 # r2 /\ room[r1] = room[r2]
        /\ pc[r1] = "done" /\ result[r1].parsed
        /\ pc[r2] = "done" /\ ~result[r2].parsed
        /\ prev_frame[r2] = ImageOf(r1)
        /\ previous_captures[room[r1]] = ImageOf(r1)
====
